---- MODULE Spec2Model ----
(***************************************************************************)
(* Network Investigation Tool (src/main.py, src/core/utils.py).            *)
(*                                                                         *)
(* A Python str is modelled as a sequence of one-character strings, so     *)
(* that split, strip, int(), format() and str() are computed character by  *)
(* character as the interpreter computes them.  A Python int that can      *)
(* exceed 2^31 - 1 (the host count, an address read as a number) is        *)
(* modelled as a pair of limbs, see Big.                                   *)
(***************************************************************************)
EXTENDS Integers, Sequences, FiniteSets, TLC

VARIABLES pc, text, ip_address, subnet_mask, msg, info

vars == <<pc, text, ip_address, subnet_mask, msg, info>>

(***************************************************************************)
(* Bounds of the input pool.                                               *)
(***************************************************************************)
\* Inputs with 1 .. MaxParts dot-separated numeric parts are typed.
MaxParts == 5
\* Inputs whose first part carries 0 .. MaxZeros extra leading zeros are typed.
MaxZeros == 2

(***************************************************************************)
(* Program constants.                                                      *)
(***************************************************************************)
AddrBits == 32
OctetBits == 8
NumOctets == 4
MaxOctet == 255

(***************************************************************************)
(* Python built-ins used by the program, on character sequences.           *)
(***************************************************************************)
DigitChars == <<"0", "1", "2", "3", "4", "5", "6", "7", "8", "9">>

IsDigit(c) == \E i \in 1..10 : DigitChars[i] = c

DigitVal(c) == (CHOOSE i \in 1..10 : DigitChars[i] = c) - 1

\* str.isspace for the characters of the input alphabet
IsSpace(c) == c \in {" ", "\t"}

RECURSIVE lstrip(_)
lstrip(s) == IF s # <<>> /\ IsSpace(Head(s)) THEN lstrip(Tail(s)) ELSE s

RECURSIVE rstrip(_)
rstrip(s) ==
    IF s # <<>> /\ IsSpace(s[Len(s)]) THEN rstrip(SubSeq(s, 1, Len(s) - 1)) ELSE s

\* str.strip()
strip(s) == rstrip(lstrip(s))

\* str.split(sep): the parts between the separators, at least one part
RECURSIVE split(_, _)
split(s, sep) ==
    IF \A i \in 1..Len(s) : s[i] # sep
    THEN <<s>>
    ELSE LET k == CHOOSE i \in 1..Len(s) :
                      s[i] = sep /\ \A j \in 1..(i - 1) : s[j] # sep
         IN  <<SubSeq(s, 1, k - 1)>> \o split(SubSeq(s, k + 1, Len(s)), sep)

\* sep.join(parts)
RECURSIVE join(_, _)
join(parts, sep) ==
    IF parts = <<>> THEN <<>>
    ELSE IF Len(parts) = 1 THEN parts[1]
    ELSE parts[1] \o <<sep>> \o join(Tail(parts), sep)

\* str.count(c)
RECURSIVE count(_, _)
count(s, c) ==
    IF s = <<>> THEN 0
    ELSE (IF Head(s) = c THEN 1 ELSE 0) + count(Tail(s), c)

\* The digits-and-underscores body of an int literal: digits, with single
\* underscores only between two digits.
DigitBody(s) ==
    /\ s # <<>>
    /\ \A i \in 1..Len(s) : IsDigit(s[i]) \/ s[i] = "_"
    /\ IsDigit(s[1])
    /\ IsDigit(s[Len(s)])
    /\ \A i \in 1..(Len(s) - 1) : ~(s[i] = "_" /\ s[i + 1] = "_")

RECURSIVE DigitsValue(_, _)
DigitsValue(s, acc) ==
    IF s = <<>> THEN acc
    ELSE IF Head(s) = "_" THEN DigitsValue(Tail(s), acc)
    ELSE DigitsValue(Tail(s), acc * 10 + DigitVal(Head(s)))

\* int(s): surrounding whitespace is skipped, one sign is allowed, then the
\* digit body; anything else raises ValueError (ok = FALSE).
int(s) ==
    LET t == strip(s)
        signed == t # <<>> /\ Head(t) \in {"+", "-"}
        body == IF signed THEN Tail(t) ELSE t
        mag == DigitsValue(body, 0)
    IN  IF DigitBody(body)
        THEN [ok |-> TRUE,
              value |-> IF signed /\ Head(t) = "-" THEN 0 - mag ELSE mag]
        ELSE [ok |-> FALSE, value |-> 0]

\* the binary digits of n >= 0, most significant first ("0" for 0)
RECURSIVE bin(_)
bin(n) ==
    IF n < 2 THEN <<DigitChars[n + 1]>>
    ELSE bin(n \div 2) \o <<DigitChars[(n % 2) + 1]>>

RECURSIVE zfill(_, _)
zfill(s, width) == IF Len(s) >= width THEN s ELSE zfill(<<"0">> \o s, width)

\* format(n, '08b') for n >= 0
format08b(n) == zfill(bin(n), OctetBits)

\* int(s, 2) on a string of binary digits
RECURSIVE int2(_, _)
int2(s, acc) ==
    IF s = <<>> THEN acc ELSE int2(Tail(s), acc * 2 + DigitVal(Head(s)))

\* str(n) for n >= 0
RECURSIVE str(_)
str(n) ==
    IF n < 10 THEN <<DigitChars[n + 1]>>
    ELSE str(n \div 10) \o <<DigitChars[(n % 10) + 1]>>

RECURSIVE concat(_)
concat(ss) == IF ss = <<>> THEN <<>> ELSE Head(ss) \o concat(Tail(ss))

(***************************************************************************)
(* Python's unbounded int, where the value can exceed 2^31 - 1: the value  *)
(* hi * 2^16 + lo with 0 <= lo < 2^16.                                     *)
(***************************************************************************)
BigBase == 2 ^ 16

Big(hi, lo) == [hi |-> hi + (lo \div BigBase), lo |-> lo % BigBase]

BigOf(n) == Big(0, n)

BigSub(a, b) == Big(a.hi - b.hi, a.lo - b.lo)

\* 2 ** e for 0 <= e <= 32
BigPow2(e) == IF e < 16 THEN Big(0, 2 ^ e) ELSE Big(2 ^ (e - 16), 0)

(***************************************************************************)
(* src/core/utils.py                                                       *)
(***************************************************************************)
ip_to_binary(ip_str) ==
    LET octets == split(ip_str, ".")
    IN  concat([i \in 1..Len(octets) |-> format08b(int(octets[i]).value)])

\* binary_to_ip slicing binary_str[i:i+7]
binary_to_ip_short_slice(binary_str) ==
    join([k \in 1..NumOctets |->
              str(int2(SubSeq(binary_str, OctetBits * (k - 1) + 1, OctetBits * k - 1), 0))],
         ".")

binary_to_ip(binary_str) ==
    join([k \in 1..NumOctets |->
              str(int2(SubSeq(binary_str, OctetBits * (k - 1) + 1, OctetBits * k), 0))],
         ".")

validate_ip(ip_str) ==
    LET parts == split(ip_str, ".")
    IN  /\ Len(parts) = NumOctets
        /\ \A i \in 1..Len(parts) :
               /\ int(parts[i]).ok
               /\ ~(int(parts[i]).value < 0 \/ int(parts[i]).value > MaxOctet)

\* the loop of validate_subnet_mask with found_zero never set
RECURSIVE scan_mask_flag_lost(_, _)
scan_mask_flag_lost(binary, found_zero) ==
    IF binary = <<>> THEN TRUE
    ELSE IF Head(binary) = "0" THEN scan_mask_flag_lost(Tail(binary), found_zero)
    ELSE IF found_zero /\ Head(binary) = "1" THEN FALSE
    ELSE scan_mask_flag_lost(Tail(binary), found_zero)

\* the loop of validate_subnet_mask: TRUE when the scan ends without a
\* '1' seen after a '0'
RECURSIVE scan_mask(_, _)
scan_mask(binary, found_zero) ==
    IF binary = <<>> THEN TRUE
    ELSE IF Head(binary) = "0" THEN scan_mask(Tail(binary), TRUE)
    ELSE IF found_zero /\ Head(binary) = "1" THEN FALSE
    ELSE scan_mask(Tail(binary), found_zero)

validate_subnet_mask(mask_str) ==
    IF ~validate_ip(mask_str) THEN FALSE
    ELSE scan_mask(ip_to_binary(mask_str), FALSE)

\* the bitwise AND written as an OR
network_binary_or(ip_str, mask_str) ==
    LET ip_binary == ip_to_binary(ip_str)
        mask_binary == ip_to_binary(mask_str)
    IN  [i \in 1..AddrBits |->
            IF ip_binary[i] = "1" \/ mask_binary[i] = "1" THEN "1" ELSE "0"]

network_binary(ip_str, mask_str) ==
    LET ip_binary == ip_to_binary(ip_str)
        mask_binary == ip_to_binary(mask_str)
    IN  [i \in 1..AddrBits |->
            IF ip_binary[i] = "1" /\ mask_binary[i] = "1" THEN "1" ELSE "0"]

get_network_address(ip_str, mask_str) ==
    binary_to_ip(network_binary(ip_str, mask_str))

\* the host bits set where the mask bit is '1' instead of '0'
broadcast_binary_inverted(ip_str, mask_str) ==
    LET net_binary == ip_to_binary(binary_to_ip(network_binary(ip_str, mask_str)))
        mask_binary == ip_to_binary(mask_str)
    IN  [i \in 1..AddrBits |->
            IF mask_binary[i] = "1" THEN "1" ELSE net_binary[i]]

broadcast_binary(ip_str, mask_str) ==
    LET network_addr == get_network_address(ip_str, mask_str)
        net_binary == ip_to_binary(network_addr)
        mask_binary == ip_to_binary(mask_str)
    IN  [i \in 1..AddrBits |->
            IF mask_binary[i] = "0" THEN "1" ELSE net_binary[i]]

get_broadcast_address(ip_str, mask_str) ==
    binary_to_ip(broadcast_binary(ip_str, mask_str))

\* calculate_number_of_hosts without the host_bits == 0 branch
calculate_number_of_hosts_no_branch(mask_str) ==
    BigSub(BigPow2(count(ip_to_binary(mask_str), "0")), BigOf(2))

\* calculate_number_of_hosts without the subtraction of the two reserved
\* addresses
calculate_number_of_hosts_no_reserve(mask_str) ==
    LET host_bits == count(ip_to_binary(mask_str), "0")
    IN  IF host_bits = 0 THEN BigOf(0) ELSE BigPow2(host_bits)

calculate_number_of_hosts(mask_str) ==
    LET mask_binary == ip_to_binary(mask_str)
        host_bits == count(mask_binary, "0")
    IN  IF host_bits = 0 THEN BigOf(0)
        ELSE BigSub(BigPow2(host_bits), BigOf(2))

\* get_cidr_notation counting the '0' characters
get_cidr_notation_zeros(mask_str) == count(ip_to_binary(mask_str), "0")

get_cidr_notation(mask_str) == count(ip_to_binary(mask_str), "1")

\* get_ip_class with class A reaching 127
get_ip_class_loopback(ip_str) ==
    LET first_octet == int(split(ip_str, ".")[1]).value
    IN  IF 1 <= first_octet /\ first_octet <= 127 THEN "A"
        ELSE IF 128 <= first_octet /\ first_octet <= 191 THEN "B"
        ELSE IF 192 <= first_octet /\ first_octet <= 223 THEN "C"
        ELSE "None"

\* 'A', 'B', 'C' or None
get_ip_class(ip_str) ==
    LET first_octet == int(split(ip_str, ".")[1]).value
    IN  IF 1 <= first_octet /\ first_octet <= 126 THEN "A"
        ELSE IF 128 <= first_octet /\ first_octet <= 191 THEN "B"
        ELSE IF 192 <= first_octet /\ first_octet <= 223 THEN "C"
        ELSE "None"

\* 8, 16, 24, or None (written -1, which no prefix length equals)
get_default_mask_cidr(ip_class) ==
    IF ip_class = "A" THEN 8
    ELSE IF ip_class = "B" THEN 16
    ELSE IF ip_class = "C" THEN 24
    ELSE -1

\* the tuple (is_classful, class_name)
is_classful(ip_str, mask_str) ==
    LET ip_class == get_ip_class(ip_str)
    IN  IF ip_class = "None" THEN <<FALSE, "Classless">>
        ELSE LET cidr == get_cidr_notation(mask_str)
                 default_cidr == get_default_mask_cidr(ip_class)
             IN  IF cidr = default_cidr THEN <<TRUE, "Class " \o ip_class>>
                 ELSE <<FALSE, "Classless">>

(***************************************************************************)
(* The lines typed at the two prompts of src/main.py: canonical addresses, *)
(* every contiguous mask, masks with a 1 after a 0, parts that int()       *)
(* accepts although they are not plain numerals, malformed parts, and      *)
(* wrong part counts.                                                      *)
(***************************************************************************)
RECURSIVE Numeral(_)
Numeral(n) ==
    IF n < 10 THEN <<DigitChars[n + 1]>>
    ELSE Numeral(n \div 10) \o <<DigitChars[(n % 10) + 1]>>

\* the line "a.b.c.d" for the parts <<a, b, c, d>>
Line(parts) == join(parts, ".")

Dotted(q) == Line([i \in 1..Len(q) |-> Numeral(q[i])])

Clamp(n) == IF n < 0 THEN 0 ELSE IF n > OctetBits THEN OctetBits ELSE n

\* the mask with n leading 1-bits, as four octet values
PrefixQuad(n) ==
    [k \in 1..NumOctets |->
        (MaxOctet + 1) - 2 ^ (OctetBits - Clamp(n - OctetBits * (k - 1)))]

ContiguousMasks == {Dotted(PrefixQuad(n)) : n \in 0..AddrBits}

BrokenMasks ==
    {Dotted(q) : q \in {<<255, 0, 255, 0>>, <<0, 255, 255, 0>>, <<255, 255, 0, 255>>,
                        <<0, 0, 0, 1>>, <<255, 255, 255, 253>>, <<127, 255, 255, 255>>,
                        <<255, 254, 255, 0>>}}

Addresses ==
    {Dotted(q) : q \in {<<192, 168, 1, 130>>, <<10, 0, 0, 1>>, <<172, 16, 0, 1>>,
                        <<127, 0, 0, 1>>, <<0, 1, 2, 3>>, <<1, 0, 0, 0>>,
                        <<126, 255, 255, 255>>, <<191, 255, 0, 77>>,
                        <<223, 1, 1, 1>>, <<224, 0, 0, 5>>, <<85, 170, 85, 170>>}}

\* parts that are not plain numerals of a value in 0..255
OddParts ==
    {<<"+", "1">>, <<" ", "2">>, <<"2", " ">>, <<"1", "_", "0">>, <<"-", "0">>,
     <<"\t", "7">>, <<"+", "2", "5", "5">>,
     <<"9", "9", "9">>, <<"2", "5", "6">>, <<"-", "1">>, <<"a">>, <<>>,
     <<"4", "a">>, <<"1", "_", "_", "0">>, <<"_", "1">>, <<"1", "_">>, <<"+">>,
     <<"+", "-", "4">>, <<"1", " ", "0">>, <<"+", " ", "1">>, <<"0", "x", "1">>}

\* an odd part as the first part of an address, and as the third of a mask
OddIpLines == {Line(<<p, <<"2">>, <<"3">>, <<"4">>>>) : p \in OddParts}

OddMaskLines ==
    {Line(<<<<"2", "5", "5">>, <<"2", "5", "5">>, p, <<"0">>>>) : p \in OddParts}

\* "1", "1.2", "1.2.3", ... : k numeric parts
CountingLines == {Dotted([i \in 1..k |-> i]) : k \in 1..MaxParts}

\* "10.0.0.1", "010.0.0.1", "0010.0.0.1", ... : z zeros before the first part
ZeroPadded(z, q) ==
    Line([i \in 1..Len(q) |->
            IF i = 1 THEN [j \in 1..z |-> "0"] \o Numeral(q[i]) ELSE Numeral(q[i])])

PaddedIpLines == {ZeroPadded(z, <<10, 0, 0, 1>>) : z \in 0..MaxZeros}

PaddedMaskLines == {ZeroPadded(z, <<255, 0, 0, 0>>) : z \in 0..MaxZeros}

\* lines with whitespace around them, which the prompts strip, and lines
\* without a numeral
SpacedIpLines ==
    {<<" ">> \o Dotted(<<172, 16, 0, 1>>) \o <<" ", "\t">>,
     <<" ", " ">>, <<>>, <<".", ".", ".">>}

SpacedMaskLines ==
    {<<" ">> \o Dotted(<<255, 255, 0, 0>>) \o <<"\t">>,
     <<" ", " ">>, <<>>, <<".", ".", ".">>}

\* the lines typed at "Enter IP address (x.x.x.x): "
IpInputs ==
    Addresses \cup OddIpLines \cup CountingLines \cup PaddedIpLines
        \cup SpacedIpLines
        \cup {Dotted(PrefixQuad(n)) : n \in {0, 1, 2, AddrBits}}

\* the lines typed at "Enter Subnet Mask (x.x.x.x): "
MaskInputs ==
    ContiguousMasks \cup BrokenMasks \cup OddMaskLines \cup CountingLines
        \cup PaddedMaskLines \cup SpacedMaskLines

(***************************************************************************)
(* src/main.py                                                             *)
(***************************************************************************)
Init ==
    /\ pc = "get_valid_ip"
    /\ text = <<>>
    /\ ip_address = <<>>
    /\ subnet_mask = <<>>
    /\ msg = "banner"
    /\ info = <<>>

\* one iteration of the loop of get_valid_ip
get_valid_ip ==
    /\ pc = "get_valid_ip"
    /\ \E line \in IpInputs :
           LET ip == strip(line)
           IN  /\ text' = ip
               /\ IF validate_ip(ip)
                  THEN /\ ip_address' = ip
                       /\ pc' = "get_valid_subnet_mask"
                       /\ msg' = msg
                  ELSE /\ msg' = "Error: Invalid IP address"
                       /\ UNCHANGED <<ip_address, pc>>
    /\ UNCHANGED <<subnet_mask, info>>

\* get_valid_subnet_mask returning after the format check alone
get_valid_subnet_mask_format_only ==
    /\ pc = "get_valid_subnet_mask"
    /\ \E line \in MaskInputs :
           LET mask == strip(line)
           IN  /\ text' = mask
               /\ IF ~validate_ip(mask)
                  THEN /\ msg' = "Error: Invalid subnet mask format"
                       /\ UNCHANGED <<subnet_mask, pc>>
                  ELSE /\ subnet_mask' = mask
                       /\ pc' = "generate_output_file"
                       /\ msg' = msg
    /\ UNCHANGED <<ip_address, info>>

\* one iteration of the loop of get_valid_subnet_mask
get_valid_subnet_mask ==
    /\ pc = "get_valid_subnet_mask"
    /\ \E line \in MaskInputs :
           LET mask == strip(line)
           IN  /\ text' = mask
               /\ IF ~validate_ip(mask)
                  THEN /\ msg' = "Error: Invalid subnet mask format"
                       /\ UNCHANGED <<subnet_mask, pc>>
                  ELSE IF ~validate_subnet_mask(mask)
                  THEN /\ msg' = "Error: Invalid subnet mask"
                       /\ UNCHANGED <<subnet_mask, pc>>
                  ELSE /\ subnet_mask' = mask
                       /\ pc' = "generate_output_file"
                       /\ msg' = msg
    /\ UNCHANGED <<ip_address, info>>

\* the values the report is formatted from
network_info(ip_str, mask_str) ==
    [network_addr |-> get_network_address(ip_str, mask_str),
     broadcast_addr |-> get_broadcast_address(ip_str, mask_str),
     num_hosts |-> calculate_number_of_hosts(mask_str),
     cidr |-> get_cidr_notation(mask_str),
     classful |-> is_classful(ip_str, mask_str)[1],
     class_name |-> is_classful(ip_str, mask_str)[2]]

generate_output_file ==
    /\ pc = "generate_output_file"
    /\ info' = <<network_info(ip_address, subnet_mask)>>
    /\ msg' = "=== Network Analysis Results ==="
    /\ pc' = "done"
    /\ UNCHANGED <<text, ip_address, subnet_mask>>

Next == get_valid_ip \/ get_valid_subnet_mask \/ generate_output_file

Spec == Init /\ [][Next]_vars

(***************************************************************************)
(* Arithmetic reading of an address, used to state the properties          *)
(* independently of the character-level computation above.                 *)
(***************************************************************************)
\* the number a part denotes: its digits, whatever else surrounds them
RECURSIVE DecimalValue(_, _)
DecimalValue(p, acc) ==
    IF p = <<>> THEN acc
    ELSE DecimalValue(Tail(p),
                      IF IsDigit(Head(p)) THEN acc * 10 + DigitVal(Head(p)) ELSE acc)

\* the number of separators of a line, plus one
PartCount(s) == Cardinality({i \in 1..Len(s) : s[i] = "."}) + 1

\* the i-th part of a line
PartOf(s, i) ==
    LET dots == {k \in 1..Len(s) : s[k] = "."}
        before == {k \in dots : Cardinality({d \in dots : d < k}) = i - 2}
        after == {k \in dots : Cardinality({d \in dots : d < k}) = i - 1}
        lo == IF i = 1 THEN 0 ELSE CHOOSE k \in before : TRUE
        hi == IF after = {} THEN Len(s) + 1 ELSE CHOOSE k \in after : TRUE
    IN  SubSeq(s, lo + 1, hi - 1)

\* a part written with decimal digits only
PlainPart(p) == p # <<>> /\ \A i \in 1..Len(p) : IsDigit(p[i])

\* a plain part without superfluous leading zeros
CanonicalPart(p) == PlainPart(p) /\ (Len(p) > 1 => p[1] # "0")

\* four plain parts, each of a value in 0..255
WellFormed(s) ==
    /\ PartCount(s) = NumOctets
    /\ \A i \in 1..NumOctets :
           PlainPart(PartOf(s, i)) /\ DecimalValue(PartOf(s, i), 0) <= MaxOctet

\* the four octet values of an accepted line
OctetValues(s) == [i \in 1..NumOctets |-> DecimalValue(PartOf(s, i), 0)]

\* bit i (1 = most significant bit of the first octet) of four octet values
ValueBit(q, i) ==
    (q[((i - 1) \div OctetBits) + 1] \div 2 ^ (OctetBits - 1 - ((i - 1) % OctetBits))) % 2

OneBits(q) == Cardinality({i \in 1..AddrBits : ValueBit(q, i) = 1})

\* no 1-bit follows a 0-bit
Contiguous(q) ==
    \A i \in 1..AddrBits : \A j \in (i + 1)..AddrBits :
        ValueBit(q, i) = 0 => ValueBit(q, j) = 0

\* four octet values read as one unsigned number
AddrValue(q) == Big(q[1] * (MaxOctet + 1) + q[2], q[3] * (MaxOctet + 1) + q[4])

\* sum and order of unsigned numbers held as limbs
BigAdd(a, b) == Big(a.hi + b.hi, a.lo + b.lo)

BigLeq(a, b) == a.hi < b.hi \/ (a.hi = b.hi /\ a.lo <= b.lo)

Accepted == pc # "get_valid_ip"

Done == pc = "done"

IpRejected == pc = "get_valid_ip" /\ msg = "Error: Invalid IP address"

MaskFormatRejected ==
    pc = "get_valid_subnet_mask" /\ msg = "Error: Invalid subnet mask format"

MaskShapeRejected ==
    pc = "get_valid_subnet_mask" /\ msg = "Error: Invalid subnet mask"

MaskAccepted == pc \in {"generate_output_file", "done"}

(***************************************************************************)
(* C1.  validate_ip accepts a line if and only if it has exactly four      *)
(* dot-separated parts, each written with decimal digits only and of a     *)
(* value in 0..255: an accepted address or mask is well formed, and a      *)
(* line rejected for its format is not.                                    *)
(***************************************************************************)
C1_StrictFormat ==
    /\ Accepted => WellFormed(ip_address)
    /\ IpRejected => ~WellFormed(text)
    /\ MaskFormatRejected => ~WellFormed(text)
    /\ MaskShapeRejected => WellFormed(text)
    /\ MaskAccepted => WellFormed(subnet_mask)

(***************************************************************************)
(* C2.  For a format-valid mask, validate_subnet_mask returns true if and  *)
(* only if no 1-bit follows a 0-bit in its 32 bits, most significant bit   *)
(* first; the masks it accepts are exactly the prefix masks /0 .. /32.     *)
(***************************************************************************)
C2_MaskShape ==
    /\ MaskShapeRejected =>
           /\ validate_ip(text)
           /\ ~Contiguous(OctetValues(text))
           /\ \A n \in 0..AddrBits : OctetValues(text) # PrefixQuad(n)
    /\ MaskAccepted =>
           /\ validate_ip(subnet_mask)
           /\ Contiguous(OctetValues(subnet_mask))
           /\ \E n \in 0..AddrBits : OctetValues(subnet_mask) = PrefixQuad(n)
    /\ (MaskFormatRejected \/ MaskShapeRejected) => text \notin ContiguousMasks
    /\ \A q \in {<<255, 0, 255, 0>>, <<0, 255, 255, 0>>} :
           (pc = "get_valid_subnet_mask" /\ text = Dotted(q)) => MaskShapeRejected

\* a format-valid mask with a 1-bit after a 0-bit has been refused
C2_Witness == MaskShapeRejected /\ text = Dotted(<<255, 0, 255, 0>>)

(***************************************************************************)
(* C3.  The address is validated first, then the mask's format, then the   *)
(* mask's shape; the derived fields exist only once an address accepted    *)
(* by validate_ip and a mask accepted by validate_subnet_mask are held,    *)
(* and then all of them exist.  A rejected line leaves the prompt where    *)
(* it is with nothing derived; a format-valid mask that is not contiguous  *)
(* is reported as a shape error, a malformed one as a format error.        *)
(***************************************************************************)
C3_ValidateBeforeDerive ==
    /\ pc = "get_valid_ip" => ip_address = <<>> /\ subnet_mask = <<>> /\ info = <<>>
    /\ pc = "get_valid_subnet_mask" =>
           validate_ip(ip_address) /\ subnet_mask = <<>> /\ info = <<>>
    /\ pc = "generate_output_file" =>
           validate_ip(ip_address) /\ validate_subnet_mask(subnet_mask) /\ info = <<>>
    /\ pc = "done" =>
           /\ validate_ip(ip_address)
           /\ validate_subnet_mask(subnet_mask)
           /\ info = <<network_info(ip_address, subnet_mask)>>
    /\ IpRejected => ~validate_ip(text)
    /\ MaskFormatRejected => ~validate_ip(text)
    /\ MaskShapeRejected => validate_ip(text) /\ ~validate_subnet_mask(text)

\* a non-contiguous mask was refused with the shape error, the prompt was
\* repeated, and a later mask was accepted: nothing is derived yet
C3_Witness ==
    /\ pc = "generate_output_file"
    /\ msg = "Error: Invalid subnet mask"
    /\ ip_address = Dotted(<<192, 168, 1, 130>>)
    /\ subnet_mask = Dotted(<<255, 255, 255, 0>>)
    /\ info = <<>>

\* "1" or "0" for bit i of four octet values
BitChar(q, i) == IF ValueBit(q, i) = 1 THEN "1" ELSE "0"

\* the 32 characters of four octet values, octet-major, each octet most
\* significant bit first
BitString(q) == [i \in 1..AddrBits |-> BitChar(q, i)]

\* every part is a plain numeral without leading zeros
CanonicalLine(s) == \A i \in 1..NumOctets : CanonicalPart(PartOf(s, i))

(***************************************************************************)
(* C4 as written.  binary_to_ip(ip_to_binary(a)) == a for every address    *)
(* string a that validate_ip accepts, and ip_to_binary(binary_to_ip(b))    *)
(* == b for every 32-bit sequence b.  The first law is taken on the        *)
(* accepted addresses that are four digit-only parts of value 0..255, the  *)
(* addresses C1 describes, so that a violation does not rest on a sign,    *)
(* whitespace or underscore that int() let through.                        *)
(***************************************************************************)
C4_RoundTripIdentity ==
    /\ (Accepted /\ WellFormed(ip_address)) =>
           /\ binary_to_ip(ip_to_binary(ip_address)) = ip_address
           /\ ip_to_binary(binary_to_ip(ip_to_binary(ip_address)))
                  = ip_to_binary(ip_address)
    /\ (MaskAccepted /\ WellFormed(subnet_mask)) =>
           binary_to_ip(ip_to_binary(subnet_mask)) = subnet_mask

(***************************************************************************)
(* C4 as amended.  For every address string a that validate_ip accepts,    *)
(* ip_to_binary(a) is the 32 bits of a's octet values, octet-major and     *)
(* most significant bit first, and binary_to_ip(ip_to_binary(a)) is the    *)
(* canonical dotted-decimal text of those values, which is a itself        *)
(* exactly when every part of a is a numeral without sign, whitespace,     *)
(* underscore or leading zero; for every 32-bit sequence b the program     *)
(* forms, ip_to_binary(binary_to_ip(b)) == b.                              *)
(***************************************************************************)
C4_RoundTripCanonical ==
    /\ Accepted =>
           LET b == ip_to_binary(ip_address)
           IN  /\ b = BitString(OctetValues(ip_address))
               /\ binary_to_ip(b) = Dotted(OctetValues(ip_address))
               /\ (binary_to_ip(b) = ip_address) <=> CanonicalLine(ip_address)
               /\ ip_to_binary(binary_to_ip(b)) = b
    /\ MaskAccepted =>
           LET b == ip_to_binary(subnet_mask)
           IN  /\ b = BitString(OctetValues(subnet_mask))
               /\ binary_to_ip(b) = Dotted(OctetValues(subnet_mask))
               /\ (binary_to_ip(b) = subnet_mask) <=> CanonicalLine(subnet_mask)
               /\ ip_to_binary(binary_to_ip(b)) = b
    /\ Done =>
           \A b \in {network_binary(ip_address, subnet_mask),
                     broadcast_binary(ip_address, subnet_mask)} :
               ip_to_binary(binary_to_ip(b)) = b

\* an accepted address with a leading zero, whose round trip is not itself
C4_Witness ==
    /\ Done
    /\ ip_address = ZeroPadded(1, <<10, 0, 0, 1>>)
    /\ binary_to_ip(ip_to_binary(ip_address)) = Dotted(<<10, 0, 0, 1>>)

(***************************************************************************)
(* C5.  get_network_address returns the address whose 32 bits are the      *)
(* position-wise AND of the address bits and the mask bits;                *)
(* 192.168.1.130 with 255.255.255.0 gives 192.168.1.0.                     *)
(***************************************************************************)
C5_NetworkIsAnd ==
    Done =>
        LET a == OctetValues(ip_address)
            m == OctetValues(subnet_mask)
            n == OctetValues(info[1].network_addr)
        IN  /\ WellFormed(info[1].network_addr)
            /\ CanonicalLine(info[1].network_addr)
            /\ \A i \in 1..AddrBits : ValueBit(n, i) = ValueBit(a, i) * ValueBit(m, i)
            /\ (a = <<192, 168, 1, 130>> /\ m = <<255, 255, 255, 0>>) =>
                   info[1].network_addr = Dotted(<<192, 168, 1, 0>>)

C5_Witness ==
    /\ Done
    /\ ip_address = Dotted(<<192, 168, 1, 130>>)
    /\ subnet_mask = Dotted(<<255, 255, 255, 0>>)
    /\ info[1].network_addr = Dotted(<<192, 168, 1, 0>>)

(***************************************************************************)
(* C6.  get_broadcast_address returns network OR (NOT mask): each bit is   *)
(* 1 where the mask bit is 0 and the network-address bit where the mask    *)
(* bit is 1; 192.168.1.130 with 255.255.255.0 gives 192.168.1.255.         *)
(***************************************************************************)
C6_BroadcastIsOrNotMask ==
    Done =>
        LET a == OctetValues(ip_address)
            m == OctetValues(subnet_mask)
            b == OctetValues(info[1].broadcast_addr)
        IN  /\ WellFormed(info[1].broadcast_addr)
            /\ CanonicalLine(info[1].broadcast_addr)
            /\ \A i \in 1..AddrBits :
                   ValueBit(b, i) =
                       IF ValueBit(m, i) = 0 THEN 1
                       ELSE ValueBit(a, i) * ValueBit(m, i)
            /\ (a = <<192, 168, 1, 130>> /\ m = <<255, 255, 255, 0>>) =>
                   info[1].broadcast_addr = Dotted(<<192, 168, 1, 255>>)

C6_Witness ==
    /\ Done
    /\ ip_address = Dotted(<<192, 168, 1, 130>>)
    /\ subnet_mask = Dotted(<<255, 255, 255, 0>>)
    /\ info[1].broadcast_addr = Dotted(<<192, 168, 1, 255>>)

\* 2^h - 2 for 1 <= h <= 32, and 0 for h = 0, as limbs
UsableHosts(h) ==
    IF h = 0 THEN [hi |-> 0, lo |-> 0]
    ELSE IF h < 16 THEN [hi |-> 0, lo |-> 2 ^ h - 2]
    ELSE [hi |-> 2 ^ (h - 16) - 1, lo |-> 2 ^ 16 - 2]

(***************************************************************************)
(* C7.  For a mask with h zero bits calculate_number_of_hosts returns 0    *)
(* when h = 0 and 2^h - 2 otherwise; the result is never negative and is   *)
(* 0 whenever h <= 1 (/24 -> 254, /30 -> 2, /31 -> 0, /32 -> 0,            *)
(* /0 -> 2^32 - 2).                                                        *)
(***************************************************************************)
C7_HostCount ==
    Done =>
        LET m == OctetValues(subnet_mask)
            h == AddrBits - OneBits(m)
            n == info[1].num_hosts
        IN  /\ n = UsableHosts(h)
            /\ n.hi >= 0 /\ n.lo >= 0
            /\ h <= 1 => n = [hi |-> 0, lo |-> 0]
            /\ m = <<255, 255, 255, 0>> => n = [hi |-> 0, lo |-> 254]
            /\ m = <<255, 255, 255, 252>> => n = [hi |-> 0, lo |-> 2]
            /\ m = <<255, 255, 255, 254>> => n = [hi |-> 0, lo |-> 0]
            /\ m = <<255, 255, 255, 255>> => n = [hi |-> 0, lo |-> 0]
            /\ m = <<0, 0, 0, 0>> => n = [hi |-> 65535, lo |-> 65534]

\* the point mask, where the general formula would give -1
C7_Witness ==
    /\ Done
    /\ subnet_mask = Dotted(<<255, 255, 255, 255>>)
    /\ info[1].num_hosts = [hi |-> 0, lo |-> 0]

(***************************************************************************)
(* C8.  get_cidr_notation returns the number of 1-bits of the mask; for    *)
(* an accepted mask it lies in 0..32, is the number of leading 1-bits,     *)
(* and is 32 minus the host-bit count from which the host count is         *)
(* computed (/24 -> 24, /32 -> 32, /0 -> 0).                               *)
(***************************************************************************)
C8_CidrPrefix ==
    Done =>
        LET m == OctetValues(subnet_mask)
            c == info[1].cidr
        IN  /\ c = OneBits(m)
            /\ c \in 0..AddrBits
            /\ \A i \in 1..AddrBits : ValueBit(m, i) = 1 <=> i <= c
            /\ info[1].num_hosts = UsableHosts(AddrBits - c)
            /\ m = <<255, 255, 255, 0>> => c = 24
            /\ m = <<255, 255, 255, 255>> => c = 32
            /\ m = <<0, 0, 0, 0>> => c = 0

C8_Witness ==
    /\ Done
    /\ subnet_mask = Dotted(<<255, 255, 240, 0>>)
    /\ info[1].cidr = 20

\* the class of a first octet and the prefix length that goes with it
ClassOf(f) ==
    IF f \in 1..126 THEN "A"
    ELSE IF f \in 128..191 THEN "B"
    ELSE IF f \in 192..223 THEN "C"
    ELSE "None"

DefaultPrefix(c) == CASE c = "A" -> 8 [] c = "B" -> 16 [] c = "C" -> 24 [] OTHER -> -1

(***************************************************************************)
(* C9.  is_classful returns (true, "Class X") exactly when the first       *)
(* octet is in a class range (1-126 A, 128-191 B, 192-223 C) and the       *)
(* mask's prefix is that class's default (8, 16, 24); in every other       *)
(* case, including first octet 0, 127 or 224-255, it returns               *)
(* (false, "Classless").  The boolean is true iff the label is not         *)
(* "Classless".                                                            *)
(***************************************************************************)
C9_Classful ==
    Done =>
        LET f == OctetValues(ip_address)[1]
            p == OneBits(OctetValues(subnet_mask))
            c == ClassOf(f)
            r == is_classful(ip_address, subnet_mask)
        IN  /\ info[1].classful = r[1] /\ info[1].class_name = r[2]
            /\ get_ip_class(ip_address) = c
            /\ IF c # "None" /\ p = DefaultPrefix(c)
               THEN r = <<TRUE, "Class " \o c>>
               ELSE r = <<FALSE, "Classless">>
            /\ r[1] <=> r[2] # "Classless"
            /\ r[2] \in {"Class A", "Class B", "Class C", "Classless"}

\* a loopback address with the class A default mask is classless
C9_Witness ==
    /\ Done
    /\ ip_address = Dotted(<<127, 0, 0, 1>>)
    /\ subnet_mask = Dotted(<<255, 0, 0, 0>>)
    /\ info[1].class_name = "Classless"

\* 2^h for 0 <= h <= 32, as limbs
TwoTo(h) == IF h < 16 THEN [hi |-> 0, lo |-> 2 ^ h] ELSE [hi |-> 2 ^ (h - 16), lo |-> 0]

(***************************************************************************)
(* C10.  Read as unsigned numbers, network <= address <= broadcast and     *)
(* broadcast - network + 1 = 2^h for a mask with h host bits; for h >= 1   *)
(* the host count is broadcast - network - 1, and for h = 0 network =      *)
(* broadcast = address.  Recomputing with the same mask changes neither    *)
(* the network address nor the broadcast address.                          *)
(***************************************************************************)
C10_DerivedConsistent ==
    Done =>
        LET a == AddrValue(OctetValues(ip_address))
            n == AddrValue(OctetValues(info[1].network_addr))
            b == AddrValue(OctetValues(info[1].broadcast_addr))
            h == AddrBits - OneBits(OctetValues(subnet_mask))
        IN  /\ BigLeq(n, a) /\ BigLeq(a, b)
            /\ BigAdd(BigSub(b, n), BigOf(1)) = TwoTo(h)
            /\ h >= 1 => info[1].num_hosts = BigSub(BigSub(b, n), BigOf(1))
            /\ h = 0 => n = a /\ b = a
            /\ get_network_address(info[1].network_addr, subnet_mask)
                   = info[1].network_addr
            /\ get_broadcast_address(info[1].broadcast_addr, subnet_mask)
                   = info[1].broadcast_addr

\* an address strictly inside its subnet
C10_Witness ==
    /\ Done
    /\ ip_address = Dotted(<<172, 16, 0, 1>>)
    /\ subnet_mask = Dotted(<<255, 240, 0, 0>>)
    /\ info[1].network_addr = Dotted(<<172, 16, 0, 0>>)
    /\ info[1].broadcast_addr = Dotted(<<172, 31, 255, 255>>)

====
